---- MODULE Spec2Model ----
(***************************************************************************)
(* Model of usinggeminikey.py: the recursive JSON comparator compare_json, *)
(* the scorer score_accuracy, and the batch evaluation loop with its       *)
(* report.                                                                 *)
(*                                                                         *)
(* A JSON value is a record [t, n, s, kids]:                               *)
(*   t = "null" | "bool" | "num" | "str" | "list" | "dict"                 *)
(*   n    the number of a "num", 0/1 of a "bool" (Python's False/True)     *)
(*   s    the text of a "str"                                              *)
(*   kids the elements of a "list"; for a "dict" one slot per key of Keys, *)
(*        holding the key's value, or Absent when the dict lacks the key.  *)
(* With this canonical form TLA+ equality of two values is structural JSON *)
(* equality (true and 1 are different values), while PyEq below is what    *)
(* Python's == computes on the same two values.                            *)
(***************************************************************************)
EXTENDS Integers, Sequences, FiniteSets, TLC

\* Largest number of nodes of a generated input tree.
MaxNodes == 3

\* The key universe: every dict has one slot per key.  The generated input
\* mappings use the keys before "error"; "error" is the key of the error
\* trees of parse_with_node (lines 29 and 46).
Keys == <<"a", "b", "error">>
NumKeys == Len(Keys)
GenKeys == NumKeys - 1

Null     == [t |-> "null", n |-> 0, s |-> "", kids |-> <<>>]
Bool(b)  == [t |-> "bool", n |-> b, s |-> "", kids |-> <<>>]
Num(i)   == [t |-> "num",  n |-> i, s |-> "", kids |-> <<>>]
Str(x)   == [t |-> "str",  n |-> 0, s |-> x,  kids |-> <<>>]
List(xs) == [t |-> "list", n |-> 0, s |-> "", kids |-> xs]
Dict(vs) == [t |-> "dict", n |-> 0, s |-> "", kids |-> vs]
Absent   == [t |-> "absent", n |-> 0, s |-> "", kids |-> <<>>]

IsDict(x) == x.t = "dict"
IsList(x) == x.t = "list"
\* k in d, for a dict d and a key index k
HasKey(d, k) == d.kids[k] # Absent
KeysOf(d) == {k \in 1..NumKeys : HasKey(d, k)}

Min(a, b) == IF a <= b THEN a ELSE b
Abs(a) == IF a >= 0 THEN a ELSE -a

(***************************************************************************)
(* Bounded input domain: every tree of at most MaxNodes nodes over the     *)
(* scalars below, plus the trees the specification's examples name.        *)
(***************************************************************************)
Scalars == {Null, Bool(1), Num(1), Str("1")}

RECURSIVE TreesOfSize(_), ListsOfTotal(_), SlotsOfTotal(_, _)
\* element sequences whose sizes add up to m
ListsOfTotal(m) ==
  IF m = 0 THEN {<<>>}
  ELSE UNION {{<<x>> \o r : x \in TreesOfSize(j), r \in ListsOfTotal(m - j)} : j \in 1..m}
\* k key slots (a value or Absent each) whose sizes add up to m
SlotsOfTotal(m, k) ==
  IF k = 0 THEN (IF m = 0 THEN {<<>>} ELSE {})
  ELSE {<<Absent>> \o r : r \in SlotsOfTotal(m, k - 1)}
       \cup UNION {{<<x>> \o r : x \in TreesOfSize(j), r \in SlotsOfTotal(m - j, k - 1)} : j \in 1..m}
TreesOfSize(n) ==
  (IF n = 1 THEN Scalars ELSE {})
  \cup {List(xs) : xs \in ListsOfTotal(n - 1)}
  \cup {Dict(vs \o <<Absent>>) : vs \in SlotsOfTotal(n - 1, GenKeys)}

ExampleTrees ==
  { Dict(<<Num(1), Num(2), Absent>>),    \* {a:1, b:2}
    Dict(<<Num(1), Absent, Absent>>),    \* {a:1}
    List(<<Num(1), Num(2), Num(3)>>),    \* [1,2,3]
    List(<<Num(1), Num(2)>>),            \* [1,2]
    Str("not a mapping"),
    Dict(<<Absent, Absent, Absent>>),    \* {}
    List(<<>>),                          \* []
    List(<<Num(1), Dict(<<Num(1), Absent, Absent>>)>>) }   \* [1, {a:1}]

Inputs == UNION {TreesOfSize(n) : n \in 1..MaxNodes} \cup ExampleTrees

RECURSIVE Size(_), SizeSeq(_)
SizeSeq(xs) == IF xs = <<>> THEN 0 ELSE Size(Head(xs)) + SizeSeq(Tail(xs))
Size(x) == IF x = Absent THEN 0 ELSE 1 + SizeSeq(x.kids)

(***************************************************************************)
(* Python's == on JSON values (line 108 and line 113): None equals only    *)
(* None; bool is a subclass of int, so True == 1 and False == 0; a str     *)
(* equals only an equal str; lists are equal when equally long and         *)
(* elementwise equal; dicts when they have the same keys with equal values.*)
(***************************************************************************)
IsNumeric(x) == x.t \in {"bool", "num"}

RECURSIVE PyEq(_, _), PyEqSeq(_, _)
PyEqSeq(xs, ys) ==
  /\ Len(xs) = Len(ys)
  /\ \A i \in 1..Len(xs) :
       \/ xs[i] = Absent /\ ys[i] = Absent
       \/ xs[i] # Absent /\ ys[i] # Absent /\ PyEq(xs[i], ys[i])
PyEq(x, y) ==
  IF IsNumeric(x) /\ IsNumeric(y) THEN x.n = y.n
  ELSE IF x.t # y.t THEN FALSE
  ELSE IF x.t = "null" THEN TRUE
  ELSE IF x.t = "str" THEN x.s = y.s
  ELSE PyEqSeq(x.kids, y.kids)

(***************************************************************************)
(* compare_json (lines 88-110).  A result is [matches, total].             *)
(***************************************************************************)
Pair(m, tt) == [matches |-> m, total |-> tt]
Add(a, b) == Pair(a.matches + b.matches, a.total + b.total)

RECURSIVE CompareJson(_, _), DictLoop(_, _, _), ListLoop(_, _, _), DictKey(_, _, _)

\* Mutant of LengthPenalty: abs() dropped, so a longer pred lowers total.
LengthPenalty_NoAbs(gold, pred) == Pair(0, Len(gold.kids) - Len(pred.kids))

\* Mutant of LengthPenalty: only elements missing from pred are charged.
LengthPenalty_MissingOnly(gold, pred) ==
  Pair(0, IF Len(gold.kids) > Len(pred.kids) THEN Len(gold.kids) - Len(pred.kids) ELSE 0)

\* line 104: total += abs(len(gold) - len(pred))
LengthPenalty(gold, pred) == Pair(0, Abs(Len(gold.kids) - Len(pred.kids)))

\* lines 106-110: the else branch
Leaf(gold, pred) == Pair(IF PyEq(gold, pred) THEN 1 ELSE 0, 1)

\* Mutant of DictKey: the presence check is charged only for a missing key.
DictKey_NoPresenceCharge(gold, pred, k) ==
  IF HasKey(pred, k)
  THEN CompareJson(gold.kids[k], pred.kids[k])
  ELSE Pair(0, 1)

\* Mutant of DictKey: a key of gold found in pred is credited as a match.
DictKey_PresenceCredited(gold, pred, k) ==
  IF HasKey(pred, k)
  THEN Add(Pair(1, 1), CompareJson(gold.kids[k], pred.kids[k]))
  ELSE Pair(0, 1)

\* lines 93-97: the body of `for k in gold` for one key k of gold
DictKey(gold, pred, k) ==
  IF HasKey(pred, k)
  THEN Add(Pair(0, 1), CompareJson(gold.kids[k], pred.kids[k]))
  ELSE Pair(0, 1)

\* lines 92-97: `for k in gold`, from key index k on
DictLoop(gold, pred, k) ==
  IF k > NumKeys THEN Pair(0, 0)
  ELSE Add(IF HasKey(gold, k) THEN DictKey(gold, pred, k) ELSE Pair(0, 0),
           DictLoop(gold, pred, k + 1))

\* lines 100-103: `for g, p in zip(gold, pred)`, from position i on
ListLoop(gold, pred, i) ==
  IF i > Min(Len(gold.kids), Len(pred.kids)) THEN Pair(0, 0)
  ELSE Add(CompareJson(gold.kids[i], pred.kids[i]), ListLoop(gold, pred, i + 1))

CompareJson(gold, pred) ==
  IF IsDict(gold) /\ IsDict(pred) THEN DictLoop(gold, pred, 1)
  ELSE IF IsList(gold) /\ IsList(pred)
       THEN Add(ListLoop(gold, pred, 1), LengthPenalty(gold, pred))
  ELSE Leaf(gold, pred)

(***************************************************************************)
(* score_accuracy (lines 112-121).  match_percent is kept in hundredths of *)
(* a percent (100.0 is 10000), so that round(x, 2) is an integer.  A score *)
(* record lists its keys; fields of keys it does not have are 0 or "".     *)
(***************************************************************************)
\* round(num/den, 0) to the nearest integer, ties to even, as Python's round
RoundHalfEven(num, den) ==
  LET q == num \div den
      r == num % den
  IN IF 2 * r < den THEN q
     ELSE IF 2 * r > den THEN q + 1
     ELSE IF q % 2 = 0 THEN q ELSE q + 1

\* line 118
MatchPercent(m, tt) == IF tt > 0 THEN RoundHalfEven(m * 10000, tt) ELSE 0

ScoreRec(ks, err, em, mp, m, tt) ==
  [keys |-> ks, error |-> err, exact_match |-> em, match_percent |-> mp,
   matches |-> m, total |-> tt]

\* line 114
ExactRecord == ScoreRec({"exact_match", "match_percent"}, "", 1, 10000, 0, 0)

\* lines 116-121
PartialRecord(c) ==
  ScoreRec({"exact_match", "match_percent", "matches", "total"}, "",
           0, MatchPercent(c.matches, c.total), c.matches, c.total)

\* Mutant of ScoreAccuracy: the equality short-circuit of line 113 is missing.
ScoreAccuracy_NoShortCircuit(gold, pred) ==
  [rec |-> PartialRecord(CompareJson(gold, pred)), compared |-> TRUE]

\* rec: the returned record; compared: whether line 115 ran compare_json
ScoreAccuracy(gold, pred) ==
  IF PyEq(gold, pred)
  THEN [rec |-> ExactRecord, compared |-> FALSE]
  ELSE [rec |-> PartialRecord(CompareJson(gold, pred)), compared |-> TRUE]

NoScore == ScoreRec({}, "", 0, 0, 0, 0)

(***************************************************************************)
(* The producers and the batch loop (lines 20-46, 78-85, 124-152).         *)
(***************************************************************************)
\* Number of entries of test_sqls taken into the model (the script lists 10).
NumSqls == 3

\* test_sqls (lines 124-135): the k-th query is named by k
TestSqls == [k \in 1..NumSqls |-> k]

\* What a producer call ends with: a returned value or a raised exception.
Return(v) == [raised |-> FALSE, value |-> v, exc |-> ""]
Raise(e)  == [raised |-> TRUE, value |-> Null, exc |-> e]

\* A text stream: whether json.loads accepts it, the tree it then yields, and
\* its text after strip().
JsonText(tr) == [json |-> TRUE, tree |-> tr, text |-> ""]
PlainText(x) == [json |-> FALSE, tree |-> Null, text |-> x]

\* {"error": msg} (lines 29 and 46)
ErrorTree(msg) == Dict(<<Absent, Absent, Str(msg)>>)

\* The trees the producers return in the batch model.
BatchTrees ==
  { Dict(<<Num(1), Num(2), Absent>>), Dict(<<Num(1), Absent, Absent>>),
    List(<<Num(1), Num(2)>>) }

\* node node_parse.js <sql> (lines 21-32): astify returns an AST, printed as
\* JSON on stdout with exit status 0; or it throws, and {"error": message} is
\* printed on stderr with exit status 2.  Besides, node itself can fail and
\* leave a plain-text stderr with exit status 1.
NodeRuns ==
  {[returncode |-> 0, stdout |-> JsonText(tr), stderr |-> PlainText("")] : tr \in BatchTrees}
  \cup {[returncode |-> 2, stdout |-> PlainText(""),
         stderr |-> JsonText(ErrorTree("syntax error"))]}
  \cup {[returncode |-> 1, stdout |-> PlainText(""), stderr |-> PlainText("node: fatal")]}

\* json.loads
JsonLoads(x) == IF x.json THEN Return(x.tree) ELSE Raise("JSONDecodeError")

\* Mutant of ParseWithNode: the inner try/except of lines 43-46 is missing, so
\* a stderr that is not JSON raises out of parse_with_node.
ParseWithNode_NoFallback(run) ==
  IF run.returncode = 0 THEN JsonLoads(run.stdout) ELSE JsonLoads(run.stderr)

\* parse_with_node (lines 36-46); check=True raises CalledProcessError on a
\* non-zero exit status, and only that exception is caught.
ParseWithNode(run) ==
  IF run.returncode = 0 THEN JsonLoads(run.stdout)
  ELSE IF JsonLoads(run.stderr).raised THEN Return(ErrorTree(run.stderr.text))
  ELSE JsonLoads(run.stderr)

\* What the model call can end with: the API call raises, or its text (fences
\* removed) is or is not JSON.
LlmResponses ==
  {[api_ok |-> FALSE, content |-> PlainText("")]}
  \cup {[api_ok |-> TRUE, content |-> PlainText("Sure! Here is the AST")]}
  \cup {[api_ok |-> TRUE, content |-> JsonText(tr)] : tr \in BatchTrees}

\* call_llm_to_generate_ast_gemini (lines 78-85)
CallLlm(resp) ==
  IF ~resp.api_ok THEN Raise("api error") ELSE JsonLoads(resp.content)

\* Mutant of ExceptRecord: the error record lacks match_percent and counts as
\* an exact match.
ExceptRecord_Wrong(e) == ScoreRec({"error", "exact_match"}, e, 1, 0, 0, 0)

\* line 144
ExceptRecord(e) == ScoreRec({"error", "exact_match", "match_percent"}, e, 0, 0, 0, 0)

\* lines 140-144: score is the item's score record, scored tells whether
\* score_accuracy was called
TryScore(gold_ast, llm) ==
  IF llm.raised
  THEN [score |-> ExceptRecord(llm.exc), scored |-> FALSE]
  ELSE [score |-> ScoreAccuracy(gold_ast, llm.value).rec, scored |-> TRUE]

\* r["score"].get(key, 0) (lines 149-150)
Get(rec, key) == IF key \in rec.keys THEN rec[key] ELSE 0

RECURSIVE SumGet(_, _)
SumGet(rs, key) ==
  IF rs = <<>> THEN 0 ELSE Get(Head(rs).score, key) + SumGet(Tail(rs), key)

\* lines 149-150; avg_match is percent_sum / count
MakeReport(rs) ==
  [total_exact |-> SumGet(rs, "exact_match"),
   percent_sum |-> SumGet(rs, "match_percent"),
   count |-> Len(rs)]

NoReport == [total_exact |-> 0, percent_sum |-> 0, count |-> 0]

(***************************************************************************)
(* Specification of the scorer: one call of compare_json or of             *)
(* score_accuracy on a pair of input trees.                                *)
(***************************************************************************)
VARIABLES
  gold, pred,      \* the arguments of the call
  pc,              \* "start", "compared", "scored"; "idle" outside Spec
  cmp,             \* the (matches, total) a direct compare_json call returned
  score,           \* the record score_accuracy returned
  compare_calls,   \* calls of compare_json made from the top level
  next_sql,               \* batch loop: index into test_sqls of the next item
  results,         \* batch loop: the list results
  bpc,             \* batch loop: "loop", "done", "crashed"; "idle" outside BatchSpec
  log,             \* history: per item, which producer failed and whether the scorer ran
  report,          \* the sums printed by the report
  stack,           \* the frames of compare_json under execution, innermost last
  steps,           \* history: steps the execution has taken
  deepest,         \* history: the largest number of frames there has been
  orig,            \* history: the argument trees as they were before the first call
  seen,            \* history: the latest result of each kind of call on the pair
  calls            \* history: calls made in a series of calls

scorer_vars == <<gold, pred, pc, cmp, score, compare_calls>>
batch_vars == <<next_sql, results, bpc, log, report>>
rec_vars == <<stack, steps, deepest>>
series_vars == <<orig, seen, calls>>
vars == <<gold, pred, pc, cmp, score, compare_calls, next_sql, results, bpc, log, report,
          stack, steps, deepest, orig, seen, calls>>

ScorerIdle ==
  /\ gold = Null /\ pred = Null /\ pc = "idle"
  /\ cmp = Pair(0, 0) /\ score = NoScore /\ compare_calls = 0

BatchIdle ==
  /\ next_sql = 1 /\ results = <<>> /\ bpc = "idle" /\ log = <<>> /\ report = NoReport

RecIdle == stack = <<>> /\ steps = 0 /\ deepest = 0

\* no call recorded yet
NoneSeen == [compare |-> [swap \in BOOLEAN |-> <<>>], score |-> [swap \in BOOLEAN |-> <<>>]]

SeriesIdle == orig = [gold |-> Null, pred |-> Null] /\ seen = NoneSeen /\ calls = 0

Init ==
  /\ gold \in Inputs
  /\ pred \in Inputs
  /\ pc = "start"
  /\ cmp = Pair(0, 0)
  /\ score = NoScore
  /\ compare_calls = 0
  /\ BatchIdle
  /\ RecIdle
  /\ SeriesIdle

\* a direct call compare_json(gold, pred)
CallCompareJson ==
  /\ pc = "start"
  /\ cmp' = CompareJson(gold, pred)
  /\ compare_calls' = compare_calls + 1
  /\ pc' = "compared"
  /\ UNCHANGED <<gold, pred, score>>
  /\ UNCHANGED batch_vars
  /\ UNCHANGED series_vars
  /\ UNCHANGED rec_vars

\* a call score_accuracy(gold, pred)
CallScoreAccuracy ==
  /\ pc = "start"
  /\ LET r == ScoreAccuracy(gold, pred)
     IN /\ score' = r.rec
        /\ compare_calls' = compare_calls + (IF r.compared THEN 1 ELSE 0)
  /\ pc' = "scored"
  /\ UNCHANGED <<gold, pred, cmp>>
  /\ UNCHANGED batch_vars
  /\ UNCHANGED series_vars
  /\ UNCHANGED rec_vars

Next == CallCompareJson \/ CallScoreAccuracy

Spec == Init /\ [][Next]_vars

(***************************************************************************)
(* Specification of the batch run (lines 137-152).                         *)
(***************************************************************************)
BatchInit ==
  /\ ScorerIdle
  /\ RecIdle
  /\ SeriesIdle
  /\ next_sql = 1
  /\ results = <<>>
  /\ bpc = "loop"
  /\ log = <<>>
  /\ report = NoReport

\* One iteration of `for sql in test_sqls` (lines 138-145).  An exception
\* raised by parse_with_node is outside the try and ends the script.
Iterate ==
  /\ bpc = "loop"
  /\ next_sql <= NumSqls
  /\ \E run \in NodeRuns, resp \in LlmResponses :
       LET gold_ast == ParseWithNode(run)
           llm == CallLlm(resp)
           try == TryScore(gold_ast.value, llm)
       IN IF gold_ast.raised
          THEN /\ bpc' = "crashed"
               /\ UNCHANGED <<next_sql, results, log>>
          ELSE /\ results' = Append(results, [sql |-> TestSqls[next_sql], score |-> try.score])
               /\ log' = Append(log, [node_failed |-> run.returncode # 0,
                                      llm_raised |-> llm.raised,
                                      scored |-> try.scored])
               /\ next_sql' = next_sql + 1
               /\ bpc' = bpc
  /\ UNCHANGED report
  /\ UNCHANGED scorer_vars
  /\ UNCHANGED series_vars
  /\ UNCHANGED rec_vars

\* The report after the loop (lines 148-152).
Report ==
  /\ bpc = "loop"
  /\ next_sql > NumSqls
  /\ report' = MakeReport(results)
  /\ bpc' = "done"
  /\ UNCHANGED <<next_sql, results, log>>
  /\ UNCHANGED scorer_vars
  /\ UNCHANGED series_vars
  /\ UNCHANGED rec_vars

BatchNext == Iterate \/ Report

BatchSpec == BatchInit /\ [][BatchNext]_vars

(***************************************************************************)
(* Specification of the execution of compare_json(gold, pred), call by     *)
(* call (lines 88-110).  A frame holds the arguments g and p of one call,  *)
(* the position k its loop has reached (a key index of Keys in the mapping *)
(* branch, a list position in the sequence branch) and acc, its local      *)
(* (matches, total).                                                       *)
(***************************************************************************)
\* the first key of g at or after index k, NumKeys + 1 when there is none
FirstKey(g, k) ==
  IF \E j \in k..NumKeys : HasKey(g, j)
  THEN CHOOSE j \in k..NumKeys : HasKey(g, j) /\ \A h \in k..(j - 1) : ~HasKey(g, h)
  ELSE NumKeys + 1

\* line 90, on entry to compare_json(g, p)
Frame(g, p) ==
  [g |-> g, p |-> p, acc |-> Pair(0, 0),
   k |-> IF IsDict(g) /\ IsDict(p) THEN FirstKey(g, 1) ELSE 1]

InDictBranch(f) == IsDict(f.g) /\ IsDict(f.p)
InListBranch(f) == ~InDictBranch(f) /\ IsList(f.g) /\ IsList(f.p)

\* the loop of the frame has an iteration left
LoopRunning(f) ==
  \/ InDictBranch(f) /\ f.k <= NumKeys
  \/ InListBranch(f) /\ f.k <= Min(Len(f.g.kids), Len(f.p.kids))

\* the frame's loop position after the current iteration
Advance(f) == IF InDictBranch(f) THEN FirstKey(f.g, f.k + 1) ELSE f.k + 1

\* Mutant of Callee: the recursive call passes gold instead of gold[k].
Callee_SameGold(f) == Frame(f.g, f.p.kids[f.k])

\* lines 95 and 101: the call the current iteration makes
Callee(f) == Frame(f.g.kids[f.k], f.p.kids[f.k])

\* lines 98, 104-105 and 107-110: what the frame returns once its loop is over
ReturnValue(f) ==
  IF InDictBranch(f) THEN f.acc
  ELSE IF InListBranch(f) THEN Add(f.acc, LengthPenalty(f.g, f.p))
  ELSE Leaf(f.g, f.p)

Top == stack[Len(stack)]

RecInit ==
  /\ gold \in Inputs
  /\ pred \in Inputs
  /\ pc = "running"
  /\ cmp = Pair(0, 0)
  /\ score = NoScore
  /\ compare_calls = 0
  /\ BatchIdle
  /\ SeriesIdle
  /\ stack = <<Frame(gold, pred)>>
  /\ steps = 0
  /\ deepest = 1

\* lines 93-95 and 100-101: an iteration that makes the recursive call
RecCall ==
  /\ pc = "running"
  /\ LoopRunning(Top)
  /\ InDictBranch(Top) => HasKey(Top.p, Top.k)
  /\ LET charged == IF InDictBranch(Top)
                    THEN [Top EXCEPT !.acc = Add(Top.acc, Pair(0, 1))]
                    ELSE Top
     IN stack' = Append([stack EXCEPT ![Len(stack)] = charged], Callee(Top))
  /\ steps' = steps + 1
  /\ deepest' = IF Len(stack) + 1 > deepest THEN Len(stack) + 1 ELSE deepest
  /\ UNCHANGED <<gold, pred, pc, cmp, score, compare_calls>>
  /\ UNCHANGED batch_vars
  /\ UNCHANGED series_vars

\* lines 93-94: an iteration on a key of gold that pred lacks
RecMissingKey ==
  /\ pc = "running"
  /\ LoopRunning(Top)
  /\ InDictBranch(Top)
  /\ ~HasKey(Top.p, Top.k)
  /\ stack' = [stack EXCEPT ![Len(stack)] =
                 [Top EXCEPT !.acc = Add(Top.acc, Pair(0, 1)), !.k = Advance(Top)]]
  /\ steps' = steps + 1
  /\ UNCHANGED <<gold, pred, pc, cmp, score, compare_calls, deepest>>
  /\ UNCHANGED batch_vars
  /\ UNCHANGED series_vars

\* lines 98, 105, 110: the innermost call returns; lines 95-97 and 101-103:
\* its caller adds the result and goes on with its loop
RecReturn ==
  /\ pc = "running"
  /\ ~LoopRunning(Top)
  /\ IF Len(stack) = 1
     THEN /\ cmp' = ReturnValue(Top)
          /\ pc' = "returned"
          /\ stack' = <<>>
     ELSE LET caller == stack[Len(stack) - 1]
          IN /\ stack' = [SubSeq(stack, 1, Len(stack) - 1) EXCEPT ![Len(stack) - 1] =
                            [caller EXCEPT !.acc = Add(caller.acc, ReturnValue(Top)),
                                           !.k = Advance(caller)]]
             /\ UNCHANGED <<cmp, pc>>
  /\ steps' = steps + 1
  /\ UNCHANGED <<gold, pred, score, compare_calls, deepest>>
  /\ UNCHANGED batch_vars
  /\ UNCHANGED series_vars

RecNext == RecCall \/ RecMissingKey \/ RecReturn

RecSpec == RecInit /\ [][RecNext]_vars

\* The interpreter never idles while a call is pending.
FairRecSpec == RecSpec /\ WF_vars(RecNext)

(***************************************************************************)
(* Specification of a series of calls on one pair of trees: compare_json   *)
(* and score_accuracy are called, in any order and with the arguments      *)
(* either way round, on the objects gold and pred (lines 88-121).          *)
(***************************************************************************)
\* Largest number of nodes of a tree in a series of calls.
MaxPoolNodes == 2

\* Length of a series of calls.
MaxCalls == 3

PoolTrees == UNION {TreesOfSize(n) : n \in 1..MaxPoolNodes} \cup ExampleTrees

\* Mutant of ArgsAfterCompareJson: the dict branch consumes the keys it
\* compares (pred.pop(k) for pred[k]).
ArgsAfterCompareJson_PopsKeys(x, y) ==
  IF IsDict(x) /\ IsDict(y)
  THEN <<x, Dict([k \in 1..NumKeys |-> IF HasKey(x, k) THEN Absent ELSE y.kids[k]])>>
  ELSE <<x, y>>

\* The argument objects after compare_json(x, y): lines 88-110 assign only
\* to the locals matches, total, sub_m, sub_t, g, p and k.
ArgsAfterCompareJson(x, y) == <<x, y>>

\* The argument objects after score_accuracy(x, y) (lines 112-121)
ArgsAfterScoreAccuracy(x, y) ==
  IF ScoreAccuracy(x, y).compared THEN ArgsAfterCompareJson(x, y) ELSE <<x, y>>

\* Mutant of StartCounts: matches and total are kept from the previous call.
StartCounts_Kept(previous) == previous

\* line 90: every call starts from matches, total = 0, 0, whatever the
\* previous call returned
StartCounts(previous) == Pair(0, 0)

SeriesInit ==
  /\ gold \in PoolTrees
  /\ pred \in PoolTrees
  /\ pc = "series"
  /\ cmp = Pair(0, 0)
  /\ score = NoScore
  /\ compare_calls = 0
  /\ BatchIdle
  /\ RecIdle
  /\ orig = [gold |-> gold, pred |-> pred]
  /\ seen = NoneSeen
  /\ calls = 0

\* compare_json(gold, pred), or compare_json(pred, gold) when swap
SeriesCompareJson ==
  /\ pc = "series"
  /\ calls < MaxCalls
  /\ \E swap \in BOOLEAN :
       LET x == IF swap THEN pred ELSE gold
           y == IF swap THEN gold ELSE pred
           after == ArgsAfterCompareJson(x, y)
           r == Add(StartCounts(cmp), CompareJson(x, y))
       IN /\ cmp' = r
          /\ seen' = [seen EXCEPT !.compare[swap] = <<r>>]
          /\ gold' = (IF swap THEN after[2] ELSE after[1])
          /\ pred' = (IF swap THEN after[1] ELSE after[2])
  /\ calls' = calls + 1
  /\ compare_calls' = compare_calls + 1
  /\ UNCHANGED <<pc, score, orig>>
  /\ UNCHANGED batch_vars
  /\ UNCHANGED rec_vars

\* score_accuracy(gold, pred), or score_accuracy(pred, gold) when swap
SeriesScoreAccuracy ==
  /\ pc = "series"
  /\ calls < MaxCalls
  /\ \E swap \in BOOLEAN :
       LET x == IF swap THEN pred ELSE gold
           y == IF swap THEN gold ELSE pred
           after == ArgsAfterScoreAccuracy(x, y)
           r == ScoreAccuracy(x, y)
       IN /\ score' = r.rec
          /\ seen' = [seen EXCEPT !.score[swap] = <<r.rec>>]
          /\ compare_calls' = compare_calls + (IF r.compared THEN 1 ELSE 0)
          /\ gold' = (IF swap THEN after[2] ELSE after[1])
          /\ pred' = (IF swap THEN after[1] ELSE after[2])
  /\ calls' = calls + 1
  /\ UNCHANGED <<pc, cmp, orig>>
  /\ UNCHANGED batch_vars
  /\ UNCHANGED rec_vars

SeriesNext == SeriesCompareJson \/ SeriesScoreAccuracy

SeriesSpec == SeriesInit /\ [][SeriesNext]_vars

(***************************************************************************)
(* Properties of the scorer, checked under Spec.                           *)
(***************************************************************************)
GoldAB == Dict(<<Num(1), Num(2), Absent>>)
PredA == Dict(<<Num(1), Absent, Absent>>)
List123 == List(<<Num(1), Num(2), Num(3)>>)
List12 == List(<<Num(1), Num(2)>>)

BothDicts == IsDict(gold) /\ IsDict(pred)
BothLists == IsList(gold) /\ IsList(pred)

\* the results of the recursive calls on the keys of S, added up
RECURSIVE SubResults(_, _, _)
SubResults(g, p, S) ==
  IF S = {} THEN Pair(0, 0)
  ELSE LET k == CHOOSE x \in S : TRUE
       IN Add(CompareJson(g.kids[k], p.kids[k]), SubResults(g, p, S \ {k}))

\* p without its actual-only keys, at every level where compare_json meets
\* two mappings
RECURSIVE Prune(_, _)
Prune(g, p) ==
  IF IsDict(g) /\ IsDict(p)
  THEN Dict([k \in 1..NumKeys |->
               IF HasKey(g, k) /\ HasKey(p, k) THEN Prune(g.kids[k], p.kids[k])
               ELSE Absent])
  ELSE IF IsList(g) /\ IsList(p)
  THEN List([i \in 1..Len(p.kids) |->
               IF i <= Len(g.kids) THEN Prune(g.kids[i], p.kids[i]) ELSE p.kids[i]])
  ELSE p

\* C1: for two mappings, every key of expected adds 1 to total and nothing to
\* matches; a key that actual has too adds the recursive result to matches and
\* total; keys that only actual has change nothing, at any mapping level.
C1_MappingContract ==
  (pc = "compared" /\ BothDicts) =>
    LET shared == KeysOf(gold) \cap KeysOf(pred)
        sub == SubResults(gold, pred, shared)
    IN /\ cmp.total = Cardinality(KeysOf(gold)) + sub.total
       /\ cmp.matches = sub.matches
       /\ cmp = CompareJson(gold, Prune(gold, pred))

C1_Witness ==
  /\ pc = "compared" /\ BothDicts
  /\ KeysOf(gold) \cap KeysOf(pred) # {}
  /\ KeysOf(pred) \ KeysOf(gold) # {}
  /\ cmp.matches > 0

\* C2 as stated: {a:1, b:2} against {a:1} scores matches 1, total 2, 50.0 percent.
C2_Original ==
  (pc = "scored" /\ gold = GoldAB /\ pred = PredA) =>
    /\ score.matches = 1
    /\ score.total = 2
    /\ score.match_percent = 5000

\* C2 as amended: {a:1, b:2} against {a:1} scores matches 1 and total 3 (two
\* presence checks and one scalar comparison), hence 33.33 percent.
C2_Amended ==
  (pc = "scored" /\ gold = GoldAB /\ pred = PredA) =>
    /\ score.exact_match = 0
    /\ score.matches = 1
    /\ score.total = 3
    /\ score.match_percent = 3333

C2_Witness == pc = "scored" /\ gold = GoldAB /\ pred = PredA /\ score.total = 3

\* the results of the pairwise recursive calls on positions 1..n, added up
RECURSIVE PairwiseResults(_, _, _)
PairwiseResults(g, p, n) ==
  IF n = 0 THEN Pair(0, 0)
  ELSE Add(PairwiseResults(g, p, n - 1), CompareJson(g.kids[n], p.kids[n]))

\* C3: for two sequences, the first min(len, len) positions are compared
\* pairwise and accumulated, and abs(len(expected) - len(actual)) is added to
\* total only; compare_json([1,2,3], [1,2]) = (2, 3).
C3_SequenceContract ==
  /\ (pc = "compared" /\ BothLists) =>
       LET n == Min(Len(gold.kids), Len(pred.kids))
           sub == PairwiseResults(gold, pred, n)
       IN /\ cmp.matches = sub.matches
          /\ cmp.total = sub.total + Abs(Len(gold.kids) - Len(pred.kids))
  /\ (pc = "compared" /\ gold = List123 /\ pred = List12) => cmp = Pair(2, 3)

C3_Witness ==
  /\ pc = "compared" /\ BothLists
  /\ Len(pred.kids) > Len(gold.kids)
  /\ Len(gold.kids) > 0
  /\ cmp.matches > 0

\* C4 as stated: outside mapping-vs-mapping and sequence-vs-sequence, total is 1
\* and matches is 1 exactly when expected and actual are the same value, types
\* included; a mapping against a non-mapping gives (0, 1).
C4_Original ==
  (pc = "compared" /\ ~BothDicts /\ ~BothLists) =>
    /\ cmp.total = 1
    /\ cmp.matches = (IF gold = pred THEN 1 ELSE 0)
    /\ (IsDict(gold) => cmp = Pair(0, 1))

\* What the else branch does compute: total 1, and matches 1 exactly when
\* Python's == holds, which keeps a number and its string form apart but not
\* true and 1; a mapping against a non-mapping gives (0, 1).
LeafContract ==
  (pc = "compared" /\ ~BothDicts /\ ~BothLists) =>
    /\ cmp.total = 1
    /\ cmp.matches = (IF PyEq(gold, pred) THEN 1 ELSE 0)
    /\ (gold = Num(1) /\ pred = Str("1")) => cmp.matches = 0
    /\ (IsDict(gold) => cmp = Pair(0, 1))

\* C5: score_accuracy(T, T) is {exact_match: 1, match_percent: 100.0}, returned
\* by the short-circuit without a call of compare_json.
C5_Reflexivity ==
  (pc = "scored" /\ gold = pred) =>
    /\ score.keys = {"exact_match", "match_percent"}
    /\ score.exact_match = 1
    /\ score.match_percent = 10000
    /\ compare_calls = 0

C5_Witness ==
  /\ pc = "scored" /\ gold = pred
  /\ IsDict(gold) /\ KeysOf(gold) # {}
  /\ score.exact_match = 1

\* C6: compare_json returns naturals with matches <= total, and the
\* match_percent of score_accuracy lies in 0.0 .. 100.0.
C6_Range ==
  /\ pc = "compared" =>
       /\ cmp.matches \in Nat
       /\ cmp.total \in Nat
       /\ cmp.matches <= cmp.total
  /\ pc = "scored" =>
       /\ score.match_percent >= 0
       /\ score.match_percent <= 10000
       /\ score.matches <= score.total

C6_Witness ==
  /\ pc = "scored"
  /\ Len(pred.kids) > Len(gold.kids)
  /\ score.match_percent > 0
  /\ score.match_percent < 10000

\* C7 as stated: for unequal trees score_accuracy returns exact_match 0 with the
\* matches and total of compare_json, and match_percent = matches/total*100
\* rounded to 2 places when total > 0 and 0.0 when total = 0.
C7_Original ==
  (pc = "scored" /\ gold # pred) =>
    /\ score.keys = {"exact_match", "match_percent", "matches", "total"}
    /\ score.exact_match = 0
    /\ Pair(score.matches, score.total) = CompareJson(gold, pred)
    /\ score.total > 0 =>
         2 * Abs(score.match_percent * score.total - 10000 * score.matches) <= score.total
    /\ score.total = 0 => score.match_percent = 0

\* What score_accuracy does compute on every pair that Python's == finds
\* unequal: the record of C7, with match_percent 0.0 when total is 0.
PartialScoreContract ==
  (pc = "scored" /\ ~PyEq(gold, pred)) =>
    /\ score.keys = {"exact_match", "match_percent", "matches", "total"}
    /\ score.exact_match = 0
    /\ Pair(score.matches, score.total) = CompareJson(gold, pred)
    /\ score.total > 0 =>
         2 * Abs(score.match_percent * score.total - 10000 * score.matches) <= score.total
    /\ score.total = 0 => score.match_percent = 0

\* The total = 0 case is reached: {} against a non-empty mapping.
ZeroTotalReached ==
  /\ pc = "scored" /\ BothDicts /\ KeysOf(gold) = {} /\ KeysOf(pred) # {}
  /\ score.total = 0 /\ score.match_percent = 0

RECURSIVE SumReturned(_, _, _)
SumReturned(rs, lg, key) ==
  IF rs = <<>> THEN 0
  ELSE (IF Head(lg).llm_raised THEN 0 ELSE Head(rs).score[key])
       + SumReturned(Tail(rs), Tail(lg), key)

\* C9: when the candidate producer raises for an item, the scorer is not run
\* for it and its score record is exactly an error description with
\* exact_match 0 and match_percent 0.0; the item adds 0 to the exact-match
\* count and 0 to the match_percent sum that the report averages.
C9_CandidateFailure ==
  /\ \A k \in 1..Len(results) :
       log[k].llm_raised =>
         /\ ~log[k].scored
         /\ results[k].score.keys = {"error", "exact_match", "match_percent"}
         /\ results[k].score.error # ""
         /\ results[k].score.exact_match = 0
         /\ results[k].score.match_percent = 0
  /\ \A k \in 1..Len(results) : log[k].scored = ~log[k].llm_raised
  /\ bpc = "done" =>
       /\ report.total_exact = SumReturned(results, log, "exact_match")
       /\ report.percent_sum = SumReturned(results, log, "match_percent")
       /\ report.count = NumSqls

C9_Witness ==
  /\ bpc = "done"
  /\ log[1].llm_raised
  /\ ~log[2].llm_raised
  /\ report.total_exact = 1
  /\ report.percent_sum = 10000

(***************************************************************************)
(* Properties of the execution of compare_json, checked under RecSpec.     *)
(***************************************************************************)
\* x is an element or a key's value of the container c
IsChild(x, c) == \E j \in 1..Len(c.kids) : c.kids[j] = x /\ x # Absent

\* The step-by-step execution returns what CompareJson computes.
RecAgrees == pc = "returned" => cmp = CompareJson(gold, pred)

\* Under fair scheduling every execution returns.
RecReturns == <>(pc = "returned")

\* C10: compare_json terminates without raising: along every chain of
\* recursive calls (the frames of the stack) each call is on a strict sub-tree
\* of its caller's expected and of its caller's actual, so the combined size
\* strictly decreases; hence the chain is no longer than the smaller tree is
\* large, the number of steps is bounded by the size of expected, and the
\* execution is never stuck before it returns.
C10_Terminates ==
  /\ \A j \in 1..(Len(stack) - 1) :
       /\ IsChild(stack[j + 1].g, stack[j].g)
       /\ IsChild(stack[j + 1].p, stack[j].p)
       /\ Size(stack[j + 1].g) + Size(stack[j + 1].p) < Size(stack[j].g) + Size(stack[j].p)
  /\ Len(stack) <= Min(Size(gold), Size(pred))
  /\ steps <= 3 * Size(gold)
  /\ pc \in {"running", "returned"}
  /\ pc = "running" => ENABLED RecNext
  /\ pc = "returned" => stack = <<>>

C10_Witness ==
  /\ pc = "returned"
  /\ deepest >= 3
  /\ cmp.matches = 1

RECURSIVE ZeroCostDifference(_, _)
ZeroCostDifference(g, p) ==
  IF IsDict(g) /\ IsDict(p)
  THEN \/ KeysOf(g) = {} /\ KeysOf(p) # {}
       \/ \E k \in KeysOf(g) \cap KeysOf(p) : ZeroCostDifference(g.kids[k], p.kids[k])
  ELSE IF IsList(g) /\ IsList(p)
  THEN \E j \in 1..Min(Len(g.kids), Len(p.kids)) : ZeroCostDifference(g.kids[j], p.kids[j])
  ELSE FALSE

\* C12 as stated: whenever score_accuracy reports exact_match 0, match_percent
\* is strictly less than 100.0.
C12_Original ==
  (pc = "scored" /\ score.exact_match = 0) => score.match_percent < 10000

\* C12 as amended: whenever score_accuracy reports exact_match 0 and no empty
\* mapping of expected is compared with a non-empty mapping of actual, matches
\* is less than total, and match_percent is less than 100.0 as long as total
\* is below 20000 (from where on rounding to 2 places can reach 100.0).
C12_Amended ==
  (pc = "scored" /\ score.exact_match = 0 /\ ~ZeroCostDifference(gold, pred)) =>
    /\ score.matches < score.total
    /\ score.total < 20000 => score.match_percent < 10000

C12_Witness ==
  /\ pc = "scored"
  /\ score.exact_match = 0
  /\ ~ZeroCostDifference(gold, pred)
  /\ BothDicts
  /\ KeysOf(pred) \ KeysOf(gold) # {}
  /\ score.match_percent = 5000

\* the scalar leaves of a tree, and the keys of all its mappings
RECURSIVE ScalarLeaves(_), ScalarLeavesSeq(_), KeyCount(_), KeyCountSeq(_)
ScalarLeavesSeq(xs) ==
  IF xs = <<>> THEN 0 ELSE ScalarLeaves(Head(xs)) + ScalarLeavesSeq(Tail(xs))
ScalarLeaves(x) ==
  IF x = Absent THEN 0
  ELSE IF IsDict(x) \/ IsList(x) THEN ScalarLeavesSeq(x.kids)
  ELSE 1
KeyCountSeq(xs) ==
  IF xs = <<>> THEN 0 ELSE KeyCount(Head(xs)) + KeyCountSeq(Tail(xs))
KeyCount(x) ==
  IF x = Absent THEN 0
  ELSE (IF IsDict(x) THEN Cardinality(KeysOf(x)) ELSE 0) + KeyCountSeq(x.kids)

\* C13: compare_json(T, T) returns matches = the number of scalar leaves of T
\* and total = matches + the number of keys of all mappings of T, so matches =
\* total exactly when T has no mapping key.
C13_IdenticalTrees ==
  (pc = "compared" /\ gold = pred) =>
    /\ cmp.matches = ScalarLeaves(gold)
    /\ cmp.total = ScalarLeaves(gold) + KeyCount(gold)
    /\ (cmp.matches = cmp.total) <=> (KeyCount(gold) = 0)

C13_Witness ==
  /\ pc = "compared"
  /\ gold = pred
  /\ KeyCount(gold) = 2
  /\ ScalarLeaves(gold) = 1
  /\ cmp = Pair(1, 3)

====
